---- MODULE Spec2Model ----
(***************************************************************************)
(* Model of the data pipeline of 物料分析.py: load_data (price join, mean    *)
(* imputation, cost, efficiency, grouping per distributor and month, ROI,  *)
(* material-sales ratio, value segment, material diversity) and the filter *)
(* block of main.                                                          *)
(*                                                                         *)
(* Column names of the source are Chinese; the record fields used here:    *)
(*   code = 客户代码        name = 经销商名称      region = 所属区域           *)
(*   province = 省份        product = 产品代码     ship = 发运月份             *)
(*   qty = 求和项:数量（箱）  uprice = 求和项:单价（箱）                         *)
(*   mcode = 物料代码       price = 单价（元）      category = 物料类别         *)
(*   month = 月份  year = 年份  month_name = 月份名  quarter = 季度            *)
(*   month_label = 月度名称  cost = 物料成本  amount = 销售金额                 *)
(*   efficiency = 单位使用效率  total_cost = 物料总成本  total_sales = 销售总额  *)
(*   roi = ROI  ratio = 物料销售比率  segment = 客户价值分层                    *)
(*   diversity = 物料多样性  diversity_group = 多样性分组  roi_group = ROI分组   *)
(*                                                                         *)
(* tab_distributor is filtered_distributor with the columns the tabs       *)
(* assign on it; main_distributor_data is the frame main holds under the   *)
(* name distributor_data when a run ends.                                  *)
(*                                                                         *)
(* remote_ok and local_ok say, per file, whether the request to GitHub and *)
(* the local read succeed; call describes the last call of load_data (its  *)
(* argument, whether st.cache_data answered it, the requests and reads it  *)
(* made, the messages it showed, whether it raised, and where each table   *)
(* it returned came from); cache is the store of st.cache_data, keyed by   *)
(* the argument.                                                           *)
(*                                                                         *)
(* Numbers are floats in the source.  They are modelled as exact fractions *)
(* <<n, d>> in lowest terms with d > 0; <<0, 0>> is NaN and <<1, 0>>,      *)
(* <<-1, 0>> are the infinities a division by zero produces.  Rounding of  *)
(* floating-point arithmetic is not modelled.  Series.fillna(inplace=True) *)
(* on a column is modelled as updating the frame (pandas without           *)
(* copy-on-write, the behaviour the source relies on).                     *)
(***************************************************************************)
EXTENDS Integers, Sequences, FiniteSets, TLC

VARIABLES pc, raw_material, raw_sales, raw_price,
          material_data, sales_data, material_price, distributor_data,
          selected, filtered_material, filtered_sales, filtered_distributor,
          tab_distributor, main_distributor_data,
          remote_ok, local_ok, cache, call

vars == <<pc, raw_material, raw_sales, raw_price,
          material_data, sales_data, material_price, distributor_data,
          selected, filtered_material, filtered_sales, filtered_distributor,
          tab_distributor, main_distributor_data,
          remote_ok, local_ok, cache, call>>

(***************************************************************************)
(* Float arithmetic                                                        *)
(***************************************************************************)
NaN == <<0, 0>>

Abs(n) == IF n < 0 THEN -n ELSE n

Sign(n) == IF n < 0 THEN -1 ELSE IF n > 0 THEN 1 ELSE 0

RECURSIVE GCD(_, _)
GCD(a, b) == IF b = 0 THEN a ELSE GCD(b, a % b)

Frac(n, d) ==
    IF d = 0 THEN <<Sign(n), 0>>
    ELSE LET g == GCD(Abs(n), Abs(d))
             s == Sign(d)
         IN  <<(s * n) \div g, (s * d) \div g>>

Num(i) == <<i, 1>>

IsFinite(x) == x[2] # 0

isna(x) == x = NaN

FAdd(a, b) ==
    IF IsFinite(a) /\ IsFinite(b) THEN Frac(a[1] * b[2] + b[1] * a[2], a[2] * b[2])
    ELSE IF isna(a) \/ isna(b) \/ a # b THEN NaN ELSE a

FSub(a, b) == FAdd(a, <<-b[1], b[2]>>)

FMul(a, b) ==
    IF IsFinite(a) /\ IsFinite(b) THEN Frac(a[1] * b[1], a[2] * b[2])
    ELSE <<Sign(a[1]) * Sign(b[1]), 0>>

FDiv(a, b) ==
    IF IsFinite(a) /\ IsFinite(b)
    THEN IF b[1] = 0 THEN <<Sign(a[1]), 0>> ELSE Frac(a[1] * b[2], a[2] * b[1])
    ELSE IF IsFinite(b) /\ ~isna(a) THEN <<a[1] * (IF b[1] < 0 THEN -1 ELSE 1), 0>>
    ELSE IF IsFinite(a) /\ ~isna(b) THEN Num(0)
    ELSE NaN

\* a > b and a >= b of floats: every comparison with NaN is false
FGt(a, b) ==
    /\ ~isna(a) /\ ~isna(b)
    /\ IF IsFinite(a) /\ IsFinite(b) THEN a[1] * b[2] > b[1] * a[2]
       ELSE IF IsFinite(a) THEN b[1] < 0
       ELSE IF IsFinite(b) THEN a[1] > 0
       ELSE a[1] > b[1]

FGe(a, b) == ~isna(a) /\ ~isna(b) /\ (a = b \/ FGt(a, b))

(***************************************************************************)
(* Series helpers of pandas                                                *)
(***************************************************************************)
Range(s) == {s[i] : i \in DOMAIN s}

\* Series.fillna(value): NaN cells take the value (which may itself be NaN)
fillna(x, value) == IF isna(x) THEN value ELSE x

\* Series.replace(0, np.nan)
replace_zero_nan(x) == IF x = Num(0) THEN NaN ELSE x

RECURSIVE SumSkipNa(_)
SumSkipNa(s) ==
    IF s = <<>> THEN Num(0)
    ELSE FAdd(fillna(Head(s), Num(0)), SumSkipNa(Tail(s)))

\* Series.sum(): NaN cells are skipped, an empty or all-NaN series sums to 0
sum(s) == SumSkipNa(s)

count(s) == Cardinality({i \in DOMAIN s : ~isna(s[i])})

\* Series.mean(): NaN cells are skipped, NaN when nothing is left
mean(s) == FDiv(sum(s), Num(count(s)))

\* Series.quantile(q) for q = qn/qd, linear interpolation between the two
\* neighbouring order statistics; NaN on an empty series
KthSmallest(s, k) ==
    CHOOSE v \in Range(s) :
        /\ Cardinality({i \in DOMAIN s : FGt(v, s[i])}) < k
        /\ Cardinality({i \in DOMAIN s : FGe(v, s[i])}) >= k

quantile(s, qn, qd) ==
    IF s = <<>> THEN NaN
    ELSE LET pos  == (Len(s) - 1) * qn
             lo   == pos \div qd
             rem  == pos % qd
             a    == KthSmallest(s, lo + 1)
             b    == IF rem = 0 THEN a ELSE KthSmallest(s, lo + 2)
         IN  FAdd(a, FMul(FSub(b, a), Frac(rem, qd)))

median(s) == quantile(s, 1, 2)

(***************************************************************************)
(* Missing text cells, dates and keys                                      *)
(***************************************************************************)
NA == "<NA>"

\* Series.dt.strftime('%Y-%m'): year and month of the date, the day is dropped
strftime_Ym(date) == <<date[1], date[2]>>

\* Series.dt.strftime('%m月'): the month of the date alone
strftime_m(date) == date[2]

\* Series.dt.quarter
quarter(date) == ((date[2] - 1) \div 3) + 1

\* the distributor codes and names of the model, in string order
TextOrder == <<"D1", "D2", "D3", "NA", "NB">>

TextRank(n) == CHOOSE i \in DOMAIN TextOrder : TextOrder[i] = n

\* lexicographic order of the group keys <<code, name, month_name>>
KeyLess(a, b) ==
    \/ TextRank(a[1]) < TextRank(b[1])
    \/ a[1] = b[1] /\ TextRank(a[2]) < TextRank(b[2])
    \/ a[1] = b[1] /\ a[2] = b[2] /\ a[3][1] < b[3][1]
    \/ a[1] = b[1] /\ a[2] = b[2] /\ a[3][1] = b[3][1] /\ a[3][2] < b[3][2]

RECURSIVE SortKeys(_)
SortKeys(S) ==
    IF S = {} THEN <<>>
    ELSE LET k == CHOOSE x \in S : \A y \in S : x = y \/ KeyLess(x, y)
         IN  <<k>> \o SortKeys(S \ {k})

RECURSIVE Flatten(_)
Flatten(ss) == IF ss = <<>> THEN <<>> ELSE Head(ss) \o Flatten(Tail(ss))

(***************************************************************************)
(* load_data, lines 152-227                                                *)
(***************************************************************************)
\* lines 154-163: the date columns derived from the ship date
date_columns(row) ==
    row @@ [month       |-> row.ship[2],
            year        |-> row.ship[1],
            month_name  |-> strftime_Ym(row.ship),
            quarter     |-> quarter(row.ship),
            month_label |-> strftime_m(row.ship)]

\* lines 166-167: pd.merge(material_data, material_price[[...]],
\* left_on=product, right_on=mcode, how='left'): one output row per matching
\* price entry, in price-list order; one row of missing cells when none matches
merge_price(md, mp) ==
    Flatten([i \in DOMAIN md |->
        LET hits == SelectSeq(mp, LAMBDA e : e.mcode = md[i].product)
        IN  IF hits = <<>>
            THEN <<md[i] @@ [mcode |-> NA, price |-> NaN, category |-> NA]>>
            ELSE [j \in DOMAIN hits |->
                     md[i] @@ [mcode    |-> hits[j].mcode,
                               price    |-> hits[j].price,
                               category |-> hits[j].category]]])

\* line 170: material_price[price].mean()
mean_price(mp) == mean([i \in DOMAIN mp |-> mp[i].price])

\* the imputation with the mean of the prices of the joined material rows
impute_price_rows_mean(md, mp) ==
    [i \in DOMAIN md |->
        [md[i] EXCEPT !.price = fillna(@, mean([j \in DOMAIN md |-> md[j].price]))]]

\* line 171: fillna(mean_price) on the price column
impute_price(md, mp) ==
    [i \in DOMAIN md |-> [md[i] EXCEPT !.price = fillna(@, mean_price(mp))]]

\* line 174: cost = quantity * unit price
material_cost(row) == FMul(row.qty, row.price)

\* the division without the replace(0, nan) of line 180
unit_efficiency_unguarded(row) == fillna(FDiv(row.qty, row.cost), Num(0))

\* lines 180-181: efficiency = quantity / cost.replace(0, nan), then fillna(0)
unit_efficiency(row) ==
    fillna(FDiv(row.qty, replace_zero_nan(row.cost)), Num(0))

\* the cost computed before the imputation
enrich_material_cost_first(rm, mp) ==
    LET dated   == [i \in DOMAIN rm |-> date_columns(rm[i])]
        merged  == merge_price(dated, mp)
        costed  == [i \in DOMAIN merged |->
                       merged[i] @@ [cost |-> material_cost(merged[i])]]
        priced  == impute_price(costed, mp)
    IN  [i \in DOMAIN priced |->
            priced[i] @@ [efficiency |-> unit_efficiency(priced[i])]]

\* lines 154-181 for the material table
enrich_material(rm, mp) ==
    LET dated   == [i \in DOMAIN rm |-> date_columns(rm[i])]
        priced  == impute_price(merge_price(dated, mp), mp)
        costed  == [i \in DOMAIN priced |->
                       priced[i] @@ [cost |-> material_cost(priced[i])]]
    IN  [i \in DOMAIN costed |->
            costed[i] @@ [efficiency |-> unit_efficiency(costed[i])]]

\* line 177: amount = quantity * inline unit price
sales_amount(row) == FMul(row.qty, row.uprice)

\* lines 154-163 and 177 for the sales table
enrich_sales(rs) ==
    [i \in DOMAIN rs |->
        LET r == date_columns(rs[i]) IN r @@ [amount |-> sales_amount(r)]]

\* groupby([code, name, month_name]): the keys of the rows, rows with a
\* missing key cell are dropped
GroupKey(row) == <<row.code, row.name, row.month_name>>

GroupKeys(t) ==
    {GroupKey(t[i]) : i \in {j \in DOMAIN t : t[j].code # NA /\ t[j].name # NA}}

\* the cells of one column in the rows of one group
GroupCells(t, k, col) ==
    LET rows == SelectSeq(t, LAMBDA r : GroupKey(r) = k)
    IN  [i \in DOMAIN rows |-> rows[i][col]]

\* lines 184-186: groupby(...)[cost].sum()
material_cost_by_distributor(md) ==
    [k \in GroupKeys(md) |-> sum(GroupCells(md, k, "cost"))]

\* lines 189-190: groupby(...)[amount].sum()
sales_by_distributor(sd) ==
    [k \in GroupKeys(sd) |-> sum(GroupCells(sd, k, "amount"))]

\* the join with how='left': the keys of the material side alone
merge_left_only(mc, sb) ==
    LET keys == SortKeys(DOMAIN mc)
    IN  [i \in DOMAIN keys |->
            [code        |-> keys[i][1],
             name        |-> keys[i][2],
             month_name  |-> keys[i][3],
             total_cost  |-> mc[keys[i]],
             total_sales |-> fillna(IF keys[i] \in DOMAIN sb THEN sb[keys[i]] ELSE NaN, Num(0))]]

\* lines 193-194: pd.merge(..., on=[code, name, month_name], how='outer')
\* followed by fillna(0); the rows come out in key order
merge_outer(mc, sb) ==
    LET keys == SortKeys(DOMAIN mc \cup DOMAIN sb)
    IN  [i \in DOMAIN keys |->
            [code        |-> keys[i][1],
             name        |-> keys[i][2],
             month_name  |-> keys[i][3],
             total_cost  |-> fillna(IF keys[i] \in DOMAIN mc THEN mc[keys[i]] ELSE NaN, Num(0)),
             total_sales |-> fillna(IF keys[i] \in DOMAIN sb THEN sb[keys[i]] ELSE NaN, Num(0))]]

\* ROI without the guard of np.where
ROI_unguarded(row) == FDiv(row.total_sales, row.total_cost)

\* lines 197-198: np.where(total_cost > 0, total_sales / total_cost, 0)
ROI(row) ==
    IF FGt(row.total_cost, Num(0)) THEN FDiv(row.total_sales, row.total_cost) ELSE Num(0)

\* the ratio as a fraction instead of a percentage
material_sales_ratio_fraction(row) ==
    fillna(FDiv(row.total_cost, replace_zero_nan(row.total_sales)), Num(0))

\* lines 201-203: total_cost / total_sales.replace(0, nan) * 100, then fillna(0)
material_sales_ratio(row) ==
    fillna(FMul(FDiv(row.total_cost, replace_zero_nan(row.total_sales)), Num(100)), Num(0))

\* the two sales rules tried in the other order
value_segment_growth_first(row, dd) ==
    LET total_sales == [i \in DOMAIN dd |-> dd[i].total_sales]
    IN  IF FGe(row.roi, Num(1)) /\ FGt(row.total_sales, median(total_sales))
        THEN "growth"
        ELSE IF FGe(row.roi, Num(2)) /\ FGt(row.total_sales, quantile(total_sales, 3, 4))
        THEN "high_value"
        ELSE IF FGe(row.roi, Num(1))
        THEN "stable"
        ELSE "low_efficiency"

\* the ROI test and the sales test joined by "or" in the first two rules
value_segment_either(row, dd) ==
    LET total_sales == [i \in DOMAIN dd |-> dd[i].total_sales]
    IN  IF FGe(row.roi, Num(2)) \/ FGt(row.total_sales, quantile(total_sales, 3, 4))
        THEN "high_value"
        ELSE IF FGe(row.roi, Num(1)) \/ FGt(row.total_sales, median(total_sales))
        THEN "growth"
        ELSE IF FGe(row.roi, Num(1))
        THEN "stable"
        ELSE "low_efficiency"

\* the sales tests with >= in place of >
value_segment_at_threshold(row, dd) ==
    LET total_sales == [i \in DOMAIN dd |-> dd[i].total_sales]
    IN  IF FGe(row.roi, Num(2)) /\ FGe(row.total_sales, quantile(total_sales, 3, 4))
        THEN "high_value"
        ELSE IF FGe(row.roi, Num(1)) /\ FGe(row.total_sales, median(total_sales))
        THEN "growth"
        ELSE IF FGe(row.roi, Num(1))
        THEN "stable"
        ELSE "low_efficiency"

\* lines 206-214: the thresholds are read from the frame the closure sees.
\* The labels: high_value = 高价值客户, growth = 成长型客户,
\* stable = 稳定型客户, low_efficiency = 低效型客户
value_segment(row, dd) ==
    LET total_sales == [i \in DOMAIN dd |-> dd[i].total_sales]
    IN  IF FGe(row.roi, Num(2)) /\ FGt(row.total_sales, quantile(total_sales, 3, 4))
        THEN "high_value"
        ELSE IF FGe(row.roi, Num(1)) /\ FGt(row.total_sales, median(total_sales))
        THEN "growth"
        ELSE IF FGe(row.roi, Num(1))
        THEN "stable"
        ELSE "low_efficiency"

\* the number of material rows of the group in place of nunique()
material_diversity_rows(md) ==
    [k \in {<<md[i].code, md[i].month_name>> :
                i \in {j \in DOMAIN md : md[j].code # NA}} |->
        Cardinality({i \in DOMAIN md : <<md[i].code, md[i].month_name>> = k})]

\* line 219: groupby([code, month_name])[product].nunique()
material_diversity(md) ==
    [k \in {<<md[i].code, md[i].month_name>> :
                i \in {j \in DOMAIN md : md[j].code # NA}} |->
        Cardinality({md[i].product :
                        i \in {j \in DOMAIN md :
                                  /\ <<md[j].code, md[j].month_name>> = k
                                  /\ md[j].product # NA}})]

\* lines 223-225: pd.merge(distributor_data, material_diversity,
\* on=[code, month_name], how='left') followed by fillna(0)
merge_diversity(dd, div) ==
    [i \in DOMAIN dd |->
        dd[i] @@ [diversity |->
            fillna(IF <<dd[i].code, dd[i].month_name>> \in DOMAIN div
                   THEN Num(div[<<dd[i].code, dd[i].month_name>>])
                   ELSE NaN, Num(0))]]

\* lines 197-203: the ROI and ratio columns
with_ratios(dd) ==
    [i \in DOMAIN dd |->
        dd[i] @@ [roi |-> ROI(dd[i]), ratio |-> material_sales_ratio(dd[i])]]

\* line 216: distributor_data.apply(value_segment, axis=1)
with_segment(dd) ==
    [i \in DOMAIN dd |-> dd[i] @@ [segment |-> value_segment(dd[i], dd)]]

\* lines 183-225: the aggregate per distributor and month
aggregate(md, sd) ==
    merge_diversity(
        with_segment(with_ratios(
            merge_outer(material_cost_by_distributor(md), sales_by_distributor(sd)))),
        material_diversity(md))

(***************************************************************************)
(* The sources of load_data                                                *)
(***************************************************************************)
\* github_files / local_files: the three files, in the order they are read
Files == <<"material_data", "sales_data", "material_price">>

FileSet == Range(Files)

\* no table held under any of the three names
NoOrigin == [f \in FileSet |-> "none"]

\* no call of load_data yet, or nothing stored for an argument
NoCall ==
    [use_github |-> FALSE, hit |-> FALSE, requests |-> 0, reads |-> 0,
     errors |-> 0, warning |-> FALSE, raised |-> FALSE, origin |-> NoOrigin]

\* lines 105-114: the table of the response, or None after st.error
load_from_github(f) == IF remote_ok[f] THEN "github" ELSE "none"

\* lines 142-150: pd.read_excel of the three local files in order; the first
\* failing read raises and the later files are not read
local_reads ==
    LET bad == {i \in DOMAIN Files : ~local_ok[Files[i]]}
    IN  IF bad = {} THEN Len(Files)
        ELSE CHOOSE i \in bad : \A j \in bad : i <= j

\* the local read of only the files the remote source did not deliver
local_tables_missing_only(held) ==
    [f \in FileSet |-> IF held[f] = "none" THEN "local" ELSE held[f]]

\* lines 144-150 assign all three names, whatever they held
local_tables(held) == [f \in FileSet |-> "local"]

\* lines 119-150 without the cache: the three requests when use_github, the
\* warning and use_github = False when one of them gave None, then the local
\* reads when not use_github
load_sources(use_github) ==
    LET held   == IF use_github THEN [f \in FileSet |-> load_from_github(f)]
                  ELSE NoOrigin
        failed == use_github /\ \E f \in FileSet : held[f] = "none"
        local  == ~use_github \/ failed
        raised == local /\ \E f \in FileSet : ~local_ok[f]
    IN  [use_github |-> use_github,
         hit        |-> FALSE,
         requests   |-> IF use_github THEN Len(Files) ELSE 0,
         reads      |-> IF local THEN local_reads ELSE 0,
         errors     |-> Cardinality({f \in FileSet : use_github /\ held[f] = "none"}),
         warning    |-> failed,
         raised     |-> raised,
         origin     |-> IF raised THEN NoOrigin
                        ELSE IF local THEN local_tables(held) ELSE held]

\* the function body run again on every call
cached_load_data_uncached(use_github) ==
    /\ call' = load_sources(use_github)
    /\ cache' = cache

\* line 118, @st.cache_data: a call whose argument has a stored result gets
\* it (with the messages the stored call showed) and runs nothing; another
\* call runs the function and stores its result unless it raised
cached_load_data(use_github) ==
    IF cache[use_github] # NoCall
    THEN /\ call' = [cache[use_github] EXCEPT !.hit = TRUE, !.requests = 0, !.reads = 0]
         /\ cache' = cache
    ELSE /\ call' = load_sources(use_github)
         /\ cache' = IF call'.raised THEN cache
                     ELSE [cache EXCEPT ![use_github] = call']

\* lines 152-227: from the three tables read, load_data returns
\* material_data, sales_data, material_price, distributor_data
load_data ==
    /\ material_data' = enrich_material(raw_material, raw_price)
    /\ sales_data' = enrich_sales(raw_sales)
    /\ material_price' = raw_price
    /\ distributor_data' = aggregate(material_data', sales_data')

(***************************************************************************)
(* main, lines 239-303: the sidebar widgets and the filter block           *)
(***************************************************************************)
None == <<0, 0>>

\* lines 245-262: the options each widget offers
regions(md) == {md[i].region : i \in DOMAIN md}

provinces(md) == {md[i].province : i \in DOMAIN md}

months(md) == {md[i].month_name : i \in DOMAIN md}

material_categories(mp) == {mp[i].category : i \in DOMAIN mp}

value_segments(dd) == {dd[i].segment : i \in DOMAIN dd}

\* sorted(months)[0], the month the selectbox shows first (None without months)
first_month(md) ==
    IF months(md) = {} THEN None
    ELSE CHOOSE m \in months(md) :
            \A o \in months(md) : m[1] < o[1] \/ (m[1] = o[1] /\ m[2] <= o[2])

\* the selection of a first run: every multiselect defaults to all its options
default_selection(md, mp, dd) ==
    [regions    |-> regions(md),
     provinces  |-> provinces(md),
     month      |-> first_month(md),
     categories |-> material_categories(mp),
     segments   |-> value_segments(dd)]

\* lines 277-284
filter_material(md, sel) ==
    SelectSeq(SelectSeq(md, LAMBDA r : /\ r.region \in sel.regions
                                       /\ r.province \in sel.provinces
                                       /\ r.month_name = sel.month),
              LAMBDA r : r.category \in sel.categories)

\* lines 287-291
filter_sales(sd, sel) ==
    SelectSeq(sd, LAMBDA r : /\ r.region \in sel.regions
                             /\ r.province \in sel.provinces
                             /\ r.month_name = sel.month)

\* the filter followed by a new segmentation over the rows that are left
filter_distributor_resegmented(dd, fs, sel) ==
    LET by_month   == SelectSeq(dd, LAMBDA r : r.month_name = sel.month)
        by_segment == SelectSeq(by_month, LAMBDA r : r.segment \in sel.segments)
        valid_distributors == {fs[i].code : i \in DOMAIN fs}
        kept == SelectSeq(by_segment, LAMBDA r : r.code \in valid_distributors)
    IN  [i \in DOMAIN kept |-> [kept[i] EXCEPT !.segment = value_segment(kept[i], kept)]]

\* the view without the restriction to the distributors of the filtered sales
filter_distributor_unrestricted(dd, fs, sel) ==
    SelectSeq(SelectSeq(dd, LAMBDA r : r.month_name = sel.month),
              LAMBDA r : r.segment \in sel.segments)

\* lines 294-303
filter_distributor(dd, fs, sel) ==
    LET by_month   == SelectSeq(dd, LAMBDA r : r.month_name = sel.month)
        by_segment == SelectSeq(by_month, LAMBDA r : r.segment \in sel.segments)
        valid_distributors == {fs[i].code : i \in DOMAIN fs}
    IN  SelectSeq(by_segment, LAMBDA r : r.code \in valid_distributors)

(***************************************************************************)
(* Tables of the tabs                                                      *)
(***************************************************************************)
\* Series.pct_change(): the cell over the cell before it, minus 1; NaN on
\* the first row
pct_change(s) ==
    [i \in DOMAIN s |->
        IF i = 1 THEN NaN ELSE FSub(FDiv(s[i], s[i - 1]), Num(1))]

\* the (month_name, month) keys of a table
MonthKeys(t) == {<<t[i].month_name, t[i].month>> : i \in DOMAIN t}

\* sort_values('月份') on keys that groupby or the merge left in key order:
\* by month number, keys of one month number in the order of their label
RECURSIVE SortByMonth(_)
SortByMonth(S) ==
    IF S = {} THEN <<>>
    ELSE LET k == CHOOSE x \in S : \A y \in S :
                      \/ x = y
                      \/ x[2] < y[2]
                      \/ x[2] = y[2] /\ x[1][1] < y[1][1]
                      \/ x[2] = y[2] /\ x[1][1] = y[1][1] /\ x[1][2] < y[1][2]
         IN  <<k>> \o SortByMonth(S \ {k})

\* lines 864-870 and 897-903: the rows of the selected regions and provinces,
\* of every month, summed per (month_name, month)
trend(t, col, sel) ==
    LET rows == SelectSeq(t, LAMBDA r : r.region \in sel.regions /\ r.province \in sel.provinces)
    IN  [k \in MonthKeys(rows) |->
            LET grp == SelectSeq(rows, LAMBDA r : <<r.month_name, r.month>> = k)
            IN  sum([i \in DOMAIN grp |-> grp[i][col]])]

\* lines 931-944: the outer merge of the two trends filled with 0, sorted by
\* month number, with the three month-over-month changes in percent
monthly_data(md, sd, sel) ==
    LET mt   == trend(md, "cost", sel)
        st   == trend(sd, "amount", sel)
        keys == SortByMonth(DOMAIN mt \cup DOMAIN st)
        cost == [i \in DOMAIN keys |->
                    fillna(IF keys[i] \in DOMAIN mt THEN mt[keys[i]] ELSE NaN, Num(0))]
        amt  == [i \in DOMAIN keys |->
                    fillna(IF keys[i] \in DOMAIN st THEN st[keys[i]] ELSE NaN, Num(0))]
        roi  == [i \in DOMAIN keys |->
                    fillna(FDiv(amt[i], replace_zero_nan(cost[i])), Num(0))]
    IN  [i \in DOMAIN keys |->
            [month_name    |-> keys[i][1],
             month         |-> keys[i][2],
             cost          |-> cost[i],
             amount        |-> amt[i],
             cost_change   |-> FMul(pct_change(cost)[i], Num(100)),
             amount_change |-> FMul(pct_change(amt)[i], Num(100)),
             roi           |-> roi[i],
             roi_change    |-> FMul(pct_change(roi)[i], Num(100))]]

\* line 957: st.dataframe(monthly_data[1:]), the table without its first row
monthly_change_table(md, sd, sel) ==
    LET t == monthly_data(md, sd, sel) IN IF t = <<>> THEN <<>> ELSE Tail(t)

\* lines 1723-1738: the filtered distributor view grouped by label, with the
\* sums, the number of rows and the two shares in percent
segment_summary(fd) ==
    LET labels == {fd[i].segment : i \in DOMAIN fd}
        cells(l, col) == LET grp == SelectSeq(fd, LAMBDA r : r.segment = l)
                         IN  [i \in DOMAIN grp |-> grp[i][col]]
        all(col) == [i \in DOMAIN fd |-> fd[i][col]]
    IN  [l \in labels |->
            [total_cost  |-> sum(cells(l, "total_cost")),
             total_sales |-> sum(cells(l, "total_sales")),
             distributors |-> Len(cells(l, "code")),
             mean_roi   |-> mean(cells(l, "roi")),
             cost_share  |-> FMul(FDiv(sum(cells(l, "total_cost")), sum(all("total_cost"))), Num(100)),
             sales_share |-> FMul(FDiv(sum(cells(l, "total_sales")), sum(all("total_sales"))), Num(100))]]

\* line 1932: st.tabs(segment_summary[label].tolist()); st.tabs raises
\* StreamlitAPIException on an empty list of labels
segment_tabs_raise(fd) == DOMAIN segment_summary(fd) = {}

\* lines 2101-2109: the quarters of the rows of the selected regions and
\* provinces of either table
quarters(md, sd, sel) ==
    {r.quarter : r \in {x \in Range(md) \cup Range(sd) :
                           x.region \in sel.regions /\ x.province \in sel.provinces}}

\* lines 2516-2517: Series.idxmax() and idxmin() raise ValueError on the
\* empty ROI column of a quarterly table without rows
best_quarter_raises(md, sd, sel) == quarters(md, sd, sel) = {}

\* the lines of the tabs that raise in a run, as far as they are modelled
render_errors(md, sd, fd, sel) ==
    (IF segment_tabs_raise(fd) THEN {1932} ELSE {})
        \cup (IF best_quarter_raises(md, sd, sel) THEN {2516} ELSE {})

\* lines 2013-2031: the seasonal monthly table of tab 6: the rows of the
\* selected regions and provinces summed per month (the label 月度名称 is a
\* function of the month), the outer merge filled with 0, sorted by month
\* number, ROI and the two month-over-month changes in percent
monthly_analysis(md, sd, sel) ==
    LET mt   == trend(md, "cost", sel)
        st   == trend(sd, "amount", sel)
        keys == SortByMonth(DOMAIN mt \cup DOMAIN st)
        cost == [i \in DOMAIN keys |->
                    fillna(IF keys[i] \in DOMAIN mt THEN mt[keys[i]] ELSE NaN, Num(0))]
        amt  == [i \in DOMAIN keys |->
                    fillna(IF keys[i] \in DOMAIN st THEN st[keys[i]] ELSE NaN, Num(0))]
    IN  [i \in DOMAIN keys |->
            [month_name    |-> keys[i][1],
             month         |-> keys[i][2],
             month_label   |-> keys[i][2],
             cost          |-> cost[i],
             amount        |-> amt[i],
             roi           |-> fillna(FDiv(amt[i], replace_zero_nan(cost[i])), Num(0)),
             cost_change   |-> FMul(pct_change(cost)[i], Num(100)),
             amount_change |-> FMul(pct_change(amt)[i], Num(100))]]

\* Series.shift(lag): every cell moved down by lag rows, missing cells on top
shift(s, lag) == [i \in DOMAIN s |-> IF i <= lag THEN NaN ELSE s[i - lag]]

\* Series.std() > 0: the sample deviation is missing with fewer than two
\* cells that are not missing, and 0 when they are all equal
std_positive(s) ==
    \E i, j \in DOMAIN s : ~isna(s[i]) /\ ~isna(s[j]) /\ s[i] # s[j]

\* the test of line 2208 with >= in place of >
lag_columns_inclusive(ma) == {lag \in 1..3 : Len(ma) >= lag}

\* lines 2207-2208: for lag in range(1, 4): if len(monthly_corr) > lag
lag_columns(ma) == {lag \in 1..3 : Len(ma) > lag}

\* lines 2207-2228: per lag with a column, the coefficient of the sales
\* against the shifted cost ("corr"; its value is not modelled) or the 0
\* written when one of the two deviations is not positive ("zero")
lag_corr(ma) ==
    LET cost == [i \in DOMAIN ma |-> ma[i].cost]
        amt  == [i \in DOMAIN ma |-> ma[i].amount]
    IN  [lag \in lag_columns(ma) |->
            IF std_positive(shift(cost, lag)) /\ std_positive(amt)
            THEN "corr" ELSE "zero"]

\* lines 2230-2267: the bar chart of the lags when lag_corr has an entry,
\* st.warning otherwise
lag_view(ma) == IF DOMAIN lag_corr(ma) # {} THEN "lag_chart" ELSE "warning"

\* pd.cut(x, bins, labels, right=False): the label of the interval
\* [bins[k], bins[k+1]) that holds x, a missing cell when there is none
cut(x, bins, labels) ==
    LET hit == {k \in DOMAIN labels :
                   FGe(x, Num(bins[k])) /\ FGt(Num(bins[k + 1]), x)}
    IN  IF hit = {} THEN NA ELSE labels[CHOOSE k \in hit : TRUE]

\* lines 815-816. The labels: low_diversity = 低多样性(1-3),
\* medium_diversity = 中多样性(4-6), high_diversity = 高多样性(7-10),
\* very_high_diversity = 超高多样性(>10)
diversity_bins == <<0, 3, 6, 10, 100>>

diversity_labels ==
    <<"low_diversity", "medium_diversity", "high_diversity", "very_high_diversity">>

\* lines 1306-1307. The labels: roi_low = 低效(ROI<1), roi_fair = 一般(1≤ROI<2),
\* roi_good = 良好(2≤ROI<3), roi_excellent = 优秀(ROI≥3)
roi_bins == <<0, 1, 2, 3, 100>>

roi_labels == <<"roi_low", "roi_fair", "roi_good", "roi_excellent">>

\* lines 818-823 and 1309-1314: the two group columns that the tabs assign on
\* filtered_distributor
tab_columns(fd) ==
    [i \in DOMAIN fd |->
        fd[i] @@ [diversity_group |-> cut(fd[i].diversity, diversity_bins, diversity_labels),
                  roi_group       |-> cut(fd[i].roi, roi_bins, roi_labels)]]

\* lines 825-830 and 1316-1320: groupby on a group column with count: per
\* label the number of rows of the view in that group; a row whose group
\* cell is missing is in no group
group_count(td, col, labels) ==
    [l \in Range(labels) |-> Cardinality({i \in DOMAIN td : td[i][col] = l})]

\* lines 825-830: the 经销商数量 column of diversity_group_analysis
diversity_group_analysis(td) == group_count(td, "diversity_group", diversity_labels)

\* lines 1316-1320: the 经销商数量 column of roi_group_analysis
roi_group_analysis(td) == group_count(td, "roi_group", roi_labels)

\* the column assignment reaching the frame the view was selected from
frame_after_view_write_shared(dd, view) ==
    [i \in DOMAIN dd |->
        IF \E j \in DOMAIN view : GroupKey(view[j]) = GroupKey(dd[i])
        THEN view[CHOOSE j \in DOMAIN view : GroupKey(view[j]) = GroupKey(dd[i])]
        ELSE dd[i] @@ [diversity_group |-> NA, roi_group |-> NA]]

\* lines 294-303 build filtered_distributor by boolean indexing, which gives
\* a new frame: a column assigned on it is not assigned on distributor_data
frame_after_view_write(dd, view) == dd

\* lines 275-303: the three filtered views of one run of main, then the
\* columns the tabs add and the frame main holds as distributor_data at the end
Filtered(sel) ==
    /\ selected' = sel
    /\ filtered_material' = filter_material(material_data', sel)
    /\ filtered_sales' = filter_sales(sales_data', sel)
    /\ filtered_distributor' =
           filter_distributor(distributor_data', filtered_sales', sel)
    /\ tab_distributor' = tab_columns(filtered_distributor')
    /\ main_distributor_data' =
           frame_after_view_write(distributor_data', tab_distributor')

(***************************************************************************)
(* The state machine: the first run of main loads the tables and filters   *)
(* with the default selection; every later run is triggered by one widget  *)
(* and filters the cached tables again.                                    *)
(***************************************************************************)
\* the largest number of rows of the tables read
MaxMaterial == 3

MaxSales == 2

MaxPrice == 2

SeqsUpTo(S, n) == UNION {[1..k -> S] : k \in 0..n}

InitWith(MaterialRows, SalesRows, PriceTables) ==
    /\ pc = "start"
    /\ raw_material \in SeqsUpTo(MaterialRows, MaxMaterial)
    /\ raw_sales \in SeqsUpTo(SalesRows, MaxSales)
    /\ raw_price \in PriceTables
    /\ material_data = <<>>
    /\ sales_data = <<>>
    /\ material_price = <<>>
    /\ distributor_data = <<>>
    /\ selected = [regions |-> {}, provinces |-> {}, month |-> None,
                   categories |-> {}, segments |-> {}]
    /\ filtered_material = <<>>
    /\ filtered_sales = <<>>
    /\ filtered_distributor = <<>>
    /\ tab_distributor = <<>>
    /\ main_distributor_data = <<>>
    /\ remote_ok = [f \in FileSet |-> TRUE]
    /\ local_ok = [f \in FileSet |-> TRUE]
    /\ cache = [g \in BOOLEAN |-> NoCall]
    /\ call = NoCall

\* the exception of line 239 leaves main: no table, no view
Halted ==
    /\ pc' = "failed"
    /\ material_data' = <<>>
    /\ sales_data' = <<>>
    /\ material_price' = <<>>
    /\ distributor_data' = <<>>
    /\ filtered_material' = <<>>
    /\ filtered_sales' = <<>>
    /\ filtered_distributor' = <<>>
    /\ tab_distributor' = <<>>
    /\ main_distributor_data' = <<>>
    /\ UNCHANGED selected

\* a run that goes on after load_data raised
main_run_past_failure(use_github) ==
    /\ cached_load_data(use_github)
    /\ pc' = "ready"
    /\ load_data
    /\ Filtered(default_selection(material_data', material_price',
                                  distributor_data'))
    /\ UNCHANGED <<raw_material, raw_sales, raw_price, remote_ok, local_ok>>

\* one run of main from its top with load_data(use_github) at line 239,
\* then lines 245-303 with the default selection of the widgets
main_run(use_github) ==
    /\ cached_load_data(use_github)
    /\ IF call'.raised
       THEN Halted
       ELSE /\ pc' = "ready"
            /\ load_data
            /\ Filtered(default_selection(material_data', material_price',
                                          distributor_data'))
    /\ UNCHANGED <<raw_material, raw_sales, raw_price, remote_ok, local_ok>>

\* line 239 as written (use_github=False), the first run of the session
FirstRun ==
    /\ pc = "start"
    /\ main_run(FALSE)

\* a later run: load_data answers from its cache, lines 275-303 run again
Rerun(sel) ==
    /\ pc = "ready"
    /\ sel # selected
    /\ cached_load_data(FALSE)
    /\ call'.hit
    /\ UNCHANGED <<pc, raw_material, raw_sales, raw_price, remote_ok, local_ok,
                   material_data, sales_data, material_price, distributor_data>>
    /\ Filtered(sel)

\* line 239 with the local source, at any point of the session
RunLocal == main_run(FALSE)

\* line 239 with the remote source, the default of load_data's parameter
RunGithub == main_run(TRUE)

\* a file appears or disappears, remotely or locally, between two runs
FileChange ==
    /\ \E f \in FileSet :
           \/ remote_ok' = [remote_ok EXCEPT ![f] = ~@] /\ UNCHANGED local_ok
           \/ local_ok' = [local_ok EXCEPT ![f] = ~@] /\ UNCHANGED remote_ok
    /\ UNCHANGED <<pc, raw_material, raw_sales, raw_price,
                   material_data, sales_data, material_price, distributor_data,
                   selected, filtered_material, filtered_sales,
                   filtered_distributor, tab_distributor, main_distributor_data,
                   cache, call>>

SelectRegions ==
    \E S \in SUBSET regions(material_data) : Rerun([selected EXCEPT !.regions = S])

SelectProvinces ==
    \E S \in SUBSET provinces(material_data) : Rerun([selected EXCEPT !.provinces = S])

SelectMonth ==
    \E m \in months(material_data) : Rerun([selected EXCEPT !.month = m])

SelectCategories ==
    \E S \in SUBSET material_categories(material_price) :
        Rerun([selected EXCEPT !.categories = S])

SelectSegments ==
    \E S \in SUBSET value_segments(distributor_data) :
        Rerun([selected EXCEPT !.segments = S])

Next ==
    \/ FirstRun
    \/ SelectRegions
    \/ SelectProvinces
    \/ SelectMonth
    \/ SelectCategories
    \/ SelectSegments

NextLoad == RunLocal \/ RunGithub \/ FileChange

(***************************************************************************)
(* Input domains                                                           *)
(***************************************************************************)
Jan == <<2025, 1, 5>>

Feb == <<2025, 2, 3>>

MaterialRow(c, n, r, p, prod, d, q) ==
    [code |-> c, name |-> n, region |-> r, province |-> p,
     product |-> prod, ship |-> d, qty |-> q]

SalesRow(c, n, r, p, prod, d, q, u) ==
    [code |-> c, name |-> n, region |-> r, province |-> p,
     product |-> prod, ship |-> d, qty |-> q, uprice |-> u]

PriceRow(m, pr, cat) == [mcode |-> m, price |-> pr, category |-> cat]

\* Ratio inputs: two distributors under one name in one month; material
\* quantities of either sign, sales of 0 or more; the price list prices the
\* product at 1 or is empty
RatioMaterialRows ==
    {MaterialRow(c, "NA", "R1", "P1", "M1", Jan, Num(q)) :
        c \in {"D1", "D2"}, q \in {-1, 1}}

RatioSalesRows ==
    {SalesRow(c, "NA", "R1", "P1", "F1", Jan, Num(q), Num(2)) :
        c \in {"D1", "D2"}, q \in {0, 1}}

UnitPrice == <<PriceRow("M1", Num(1), "K1")>>

InitRatio == InitWith(RatioMaterialRows, RatioSalesRows, {UnitPrice, <<>>})

\* Segment inputs: two distributors in two months, every material row costs 1,
\* sales of 2 or 4 in the first month
SegmentMaterialRows ==
    {MaterialRow(c, "NA", "R1", "P1", "M1", d, Num(1)) :
        c \in {"D1", "D2"}, d \in {Jan, Feb}}

SegmentSalesRows ==
    {SalesRow(c, "NA", "R1", "P1", "F1", Jan, Num(q), Num(2)) :
        c \in {"D1", "D2"}, q \in {1, 2}}

InitSegment == InitWith(SegmentMaterialRows, SegmentSalesRows, {UnitPrice})

\* Key inputs: two distributors, each under two names, in both tables
KeyMaterialRows ==
    {MaterialRow(c, n, "R1", "P1", "M1", Jan, Num(1)) :
        c \in {"D1", "D2"}, n \in {"NA", "NB"}}

KeySalesRows ==
    {SalesRow(c, n, "R1", "P1", "F1", Jan, Num(1), Num(2)) :
        c \in {"D1", "D2"}, n \in {"NA", "NB"}}

InitKeys == InitWith(KeyMaterialRows, KeySalesRows, {UnitPrice})

\* Price inputs: price lists with known and missing prices, material rows of
\* a listed and of an unlisted product, one kind of sales row
PriceMaterialRows ==
    {MaterialRow("D1", "NA", "R1", "P1", m, Jan, Num(2)) : m \in {"M1", "M3"}}

PriceSalesRows == {SalesRow("D1", "NA", "R1", "P1", "F1", Jan, Num(3), Num(2))}

PriceRows ==
    {PriceRow(m, pr, "K1") : m \in {"M1", "M2"}, pr \in {NaN, Num(1), Num(2)}}

InitPrice ==
    InitWith(PriceMaterialRows, PriceSalesRows, SeqsUpTo(PriceRows, MaxPrice))

\* Efficiency inputs: quantities of 0 and 10 of a listed and of an unlisted
\* product, under a price of 5, a price of 0 and an empty price list
EfficiencyMaterialRows ==
    {MaterialRow("D1", "NA", "R1", "P1", m, Jan, Num(q)) :
        m \in {"M1", "M3"}, q \in {0, 10}}

EfficiencySalesRows == {SalesRow("D1", "NA", "R1", "P1", "F1", Jan, Num(1), Num(2))}

EfficiencyPrices ==
    {<<PriceRow("M1", Num(5), "K1")>>, <<PriceRow("M1", Num(0), "K1")>>, <<>>}

InitEfficiency ==
    InitWith(EfficiencyMaterialRows, EfficiencySalesRows, EfficiencyPrices)

\* Diversity inputs: material rows of distributor D1 under two names and of
\* two products, one of them unlisted; sales of D1 and of a distributor D2
\* without material rows
DiversityMaterialRows ==
    {MaterialRow("D1", n, "R1", "P1", m, Jan, Num(1)) :
        n \in {"NA", "NB"}, m \in {"M1", "M3"}}

DiversitySalesRows ==
    {SalesRow(c, "NA", "R1", "P1", "F1", Jan, Num(1), Num(2)) : c \in {"D1", "D2"}}

InitDiversity == InitWith(DiversityMaterialRows, DiversitySalesRows, {UnitPrice})

\* Scenario inputs: two distributors in two months, every material row costs
\* 2, every sales row of the first month amounts to 5
ScenarioMaterialRows ==
    {MaterialRow(c, "NA", "R1", "P1", "M1", d, Num(2)) :
        c \in {"D1", "D2"}, d \in {Jan, Feb}}

ScenarioSalesRows ==
    {SalesRow(c, "NA", "R1", "P1", "F1", Jan, Num(5), Num(1)) : c \in {"D1", "D2"}}

InitScenario == InitWith(ScenarioMaterialRows, ScenarioSalesRows, {UnitPrice})

\* Load inputs: one material row, one sales row and a price list in the
\* files, every combination of remote and local files that can be fetched
LoadMaterial == <<MaterialRow("D1", "NA", "R1", "P1", "M1", Jan, Num(1))>>

LoadSales == <<SalesRow("D1", "NA", "R1", "P1", "F1", Jan, Num(1), Num(2))>>

InitLoad ==
    /\ pc = "start"
    /\ raw_material = LoadMaterial
    /\ raw_sales = LoadSales
    /\ raw_price = UnitPrice
    /\ material_data = <<>>
    /\ sales_data = <<>>
    /\ material_price = <<>>
    /\ distributor_data = <<>>
    /\ selected = [regions |-> {}, provinces |-> {}, month |-> None,
                   categories |-> {}, segments |-> {}]
    /\ filtered_material = <<>>
    /\ filtered_sales = <<>>
    /\ filtered_distributor = <<>>
    /\ tab_distributor = <<>>
    /\ main_distributor_data = <<>>
    /\ remote_ok \in [FileSet -> BOOLEAN]
    /\ local_ok \in [FileSet -> BOOLEAN]
    /\ cache = [g \in BOOLEAN |-> NoCall]
    /\ call = NoCall

\* Season inputs: material rows in December 2024, January and February 2025
\* with costs 4, 2 and 1, sales rows in January and March 2025
Dec24 == <<2024, 12, 9>>

Mar == <<2025, 3, 4>>

SeasonMaterialRows ==
    {MaterialRow("D1", "NA", "R1", "P1", "M1", k[1], Num(k[2])) :
        k \in {<<Dec24, 4>>, <<Jan, 2>>, <<Feb, 1>>}}

SeasonSalesRows ==
    {SalesRow("D1", "NA", "R1", "P1", "F1", d, Num(1), Num(2)) : d \in {Jan, Mar}}

InitSeason == InitWith(SeasonMaterialRows, SeasonSalesRows, {UnitPrice})

\* Group inputs: material rows of three products of distributor D1, each of
\* cost 1, and sales rows of D1 that amount to 2 and to 100
GroupMaterialRows ==
    {MaterialRow("D1", "NA", "R1", "P1", m, Jan, Num(1)) : m \in {"M1", "M2", "M3"}}

GroupSalesRows ==
    {SalesRow("D1", "NA", "R1", "P1", "F1", Jan, Num(q), Num(1)) : q \in {2, 100}}

InitGroup == InitWith(GroupMaterialRows, GroupSalesRows, {UnitPrice})

\* Dashboard inputs: distributor D1 of region R1 with material in two months
\* and D2 of region R2 with material in one; sales of D1 in either region
MaterialRows ==
    {MaterialRow(k[1], "NA", k[2], "P1", "M1", k[3], Num(1)) :
        k \in {<<"D1", "R1", Jan>>, <<"D1", "R1", Feb>>, <<"D2", "R2", Jan>>}}

SalesRows ==
    {SalesRow(k[1], "NA", k[2], "P1", "F1", Jan, Num(1), Num(2)) :
        k \in {<<"D1", "R1">>, <<"D1", "R2">>}}

Init == InitWith(MaterialRows, SalesRows, {UnitPrice})

Spec == Init /\ [][Next]_vars

SpecRatio == InitRatio /\ [][FirstRun]_vars

SpecSegment == InitSegment /\ [][FirstRun]_vars

SpecKeys == InitKeys /\ [][FirstRun]_vars

SpecPrice == InitPrice /\ [][FirstRun]_vars

SpecSeason == InitSeason /\ [][FirstRun]_vars

SpecGroup == InitGroup /\ [][FirstRun]_vars

SpecEfficiency == InitEfficiency /\ [][FirstRun]_vars

SpecDiversity == InitDiversity /\ [][FirstRun]_vars

SpecScenario == InitScenario /\ [][FirstRun]_vars

SpecLoad == InitLoad /\ [][NextLoad]_vars

(***************************************************************************)
(* Claims                                                                  *)
(***************************************************************************)
Loaded == pc = "ready"

Rows(t) == {t[i] : i \in DOMAIN t}

NumericCells(r) == {r.total_cost, r.total_sales, r.roi, r.ratio, r.diversity}

\* C1: in the aggregate load_data returns, a total material cost of 0 gives
\* ROI 0, a total sales of 0 gives material-sales ratio 0, and every numeric
\* cell of every row is a finite number (neither NaN nor an infinity).
C1_RatiosDefined ==
    \A r \in Rows(distributor_data) :
        /\ r.total_cost = Num(0) => r.roi = Num(0)
        /\ r.total_sales = Num(0) => r.ratio = Num(0)
        /\ \A x \in NumericCells(r) : IsFinite(x)

\* a loaded aggregate with a row of cost 0 and sales, and a row of cost and
\* no sales: both divisions by zero were due
C1_Witness ==
    /\ Loaded
    /\ \E r \in Rows(distributor_data) : r.total_cost = Num(0) /\ r.total_sales # Num(0)
    /\ \E r \in Rows(distributor_data) : r.total_sales = Num(0) /\ r.total_cost # Num(0)

\* C2 as stated: ROI is total sales / total material cost whenever the cost
\* is not 0 (0 otherwise) and the ratio is cost / sales * 100 whenever the
\* sales are not 0 (0 otherwise).
C2_Original ==
    \A r \in Rows(distributor_data) :
        /\ r.roi = IF r.total_cost # Num(0)
                   THEN FDiv(r.total_sales, r.total_cost) ELSE Num(0)
        /\ r.ratio = IF r.total_sales # Num(0)
                     THEN FMul(FDiv(r.total_cost, r.total_sales), Num(100)) ELSE Num(0)

\* C2 amended: ROI is total sales / total material cost whenever the cost is
\* greater than 0 and 0 otherwise (also for a negative cost); the ratio is
\* cost / sales * 100 whenever the sales are not 0 and 0 otherwise.
C2_RoiAndRatio ==
    \A r \in Rows(distributor_data) :
        /\ r.roi = IF FGt(r.total_cost, Num(0))
                   THEN FDiv(r.total_sales, r.total_cost) ELSE Num(0)
        /\ r.ratio = IF r.total_sales # Num(0)
                     THEN FMul(FDiv(r.total_cost, r.total_sales), Num(100)) ELSE Num(0)

\* a loaded aggregate with a row of positive cost and sales, whose ROI and
\* ratio are proper quotients, next to a row of negative cost with sales
C2_Witness ==
    /\ Loaded
    /\ \E r \in Rows(distributor_data) :
           FGt(r.total_cost, Num(0)) /\ FGt(r.total_sales, Num(0)) /\ r.roi # Num(0)
    /\ \E r \in Rows(distributor_data) :
           FGt(Num(0), r.total_cost) /\ r.total_sales # Num(0) /\ r.roi = Num(0)

SegmentLabels == {"high_value", "growth", "stable", "low_efficiency"}

TotalSales(dd) == [i \in DOMAIN dd |-> dd[i].total_sales]

\* C3: every aggregate row has exactly one of the four labels, the first that
\* matches in the order: ROI >= 2 and total sales above the 75th percentile
\* of total sales over all aggregate rows -> high_value; ROI >= 1 and total
\* sales above the median over all aggregate rows -> growth; ROI >= 1 ->
\* stable; otherwise low_efficiency.
C3_FirstMatch ==
    \A r \in Rows(distributor_data) :
        LET high   == /\ FGe(r.roi, Num(2))
                      /\ FGt(r.total_sales, quantile(TotalSales(distributor_data), 3, 4))
            growth == /\ FGe(r.roi, Num(1))
                      /\ FGt(r.total_sales, median(TotalSales(distributor_data)))
        IN  /\ r.segment \in SegmentLabels
            /\ r.segment = "high_value" <=> high
            /\ r.segment = "growth" <=> ~high /\ growth
            /\ r.segment = "stable" <=> ~high /\ ~growth /\ FGe(r.roi, Num(1))
            /\ r.segment = "low_efficiency" <=> ~FGe(r.roi, Num(1))

\* a loaded aggregate where a row with ROI >= 2 fails the first rule (sales
\* not above the 75th percentile) and is caught by the second, next to a
\* row of low efficiency
C3_Witness ==
    /\ Loaded
    /\ \E r \in Rows(distributor_data) : r.segment = "growth" /\ FGe(r.roi, Num(2))
    /\ \E r \in Rows(distributor_data) : r.segment = "low_efficiency"

\* C4: whatever the filter selections, every row of the filtered distributor
\* view is a row of the full aggregate and carries the label that the
\* thresholds over the whole unfiltered aggregate give it.
C4_ThresholdsGlobal ==
    \A r \in Rows(filtered_distributor) :
        /\ r \in Rows(distributor_data)
        /\ r.segment = value_segment(r, distributor_data)

\* a filtered view, after a change of selection, that leaves out aggregate
\* rows and holds a row that thresholds over the view alone would label
\* differently
C4_Witness ==
    /\ Loaded
    /\ selected # default_selection(material_data, material_price, distributor_data)
    /\ Len(filtered_distributor) < Len(distributor_data)
    /\ \E r \in Rows(filtered_distributor) :
           r.segment # value_segment(r, filtered_distributor)

CodeMonth(r) == <<r.code, r.month_name>>

\* C5: every key of the grouped material table or of the grouped sales table
\* is the key of exactly one aggregate row, the diversity join included; a
\* side without the key counts 0, and a key with material rows and no sales
\* rows has total sales 0 and ROI 0.
C5_OuterJoinComplete ==
    Loaded =>
        /\ \A k \in GroupKeys(material_data) \cup GroupKeys(sales_data) :
               Cardinality({i \in DOMAIN distributor_data :
                               GroupKey(distributor_data[i]) = k}) = 1
        /\ \A r \in Rows(distributor_data) :
               /\ GroupKey(r) \notin GroupKeys(sales_data) =>
                      r.total_sales = Num(0) /\ r.roi = Num(0)
               /\ GroupKey(r) \notin GroupKeys(material_data) =>
                      r.total_cost = Num(0)

\* a loaded aggregate with a key of the material side alone, a key of the
\* sales side alone and a key of both
C5_Witness ==
    /\ Loaded
    /\ GroupKeys(material_data) \ GroupKeys(sales_data) # {}
    /\ GroupKeys(sales_data) \ GroupKeys(material_data) # {}
    /\ GroupKeys(material_data) \cap GroupKeys(sales_data) # {}

\* C6: no two aggregate rows share the same distributor code and month
\* label, also when a distributor code is recorded under different names.
C6_OneRowPerCodeMonth ==
    \A i, j \in DOMAIN distributor_data :
        CodeMonth(distributor_data[i]) = CodeMonth(distributor_data[j]) => i = j

\* the sum of a column over the first n rows of a table that have the code
\* and month of a key
RECURSIVE Total(_, _, _, _)
Total(t, col, key, n) ==
    IF n = 0 THEN Num(0)
    ELSE FAdd(Total(t, col, key, n - 1),
              IF CodeMonth(t[n]) = key THEN t[n][col] ELSE Num(0))

\* C7: the total material cost of every aggregate row is the sum of cost over
\* the material rows of its distributor code and month label, and its total
\* sales the sum of amount over the sales rows of that code and month.
C7_TotalsPerCodeMonth ==
    \A r \in Rows(distributor_data) :
        /\ r.total_cost =
               Total(material_data, "cost", CodeMonth(r), Len(material_data))
        /\ r.total_sales =
               Total(sales_data, "amount", CodeMonth(r), Len(sales_data))

\* C8: the cost of every enriched material row is its quantity times its unit
\* price as it stands after imputation, and the amount of every sales row is
\* its quantity times its inline unit price (a product with a NaN factor is
\* NaN).
C8_CostAndAmount ==
    /\ \A r \in Rows(material_data) : r.cost = FMul(r.qty, r.price)
    /\ \A r \in Rows(sales_data) : r.amount = FMul(r.qty, r.uprice)

\* a loaded material table with a row of an unlisted product whose imputed
\* price is known and whose cost is finite, next to a sales row
C8_Witness ==
    /\ Loaded
    /\ \E r \in Rows(material_data) :
           r.mcode = NA /\ IsFinite(r.price) /\ IsFinite(r.cost) /\ r.cost # Num(0)
    /\ sales_data # <<>>

\* C9: after imputation no enriched material row has a null unit price,
\* whatever the price list (an empty one and one without known prices
\* included).
C9_PriceNeverNull ==
    \A r \in Rows(material_data) : ~isna(r.price)

KnownPrices(mp) == {i \in DOMAIN mp : ~isna(mp[i].price)}

RECURSIVE KnownTotal(_, _)
KnownTotal(mp, n) ==
    IF n = 0 THEN Num(0)
    ELSE FAdd(KnownTotal(mp, n - 1),
              IF n \in KnownPrices(mp) THEN mp[n].price ELSE Num(0))

\* the arithmetic mean of the known prices of a price list, each entry once
ListMean(mp) == FDiv(KnownTotal(mp, Len(mp)), Num(Cardinality(KnownPrices(mp))))

\* the number of enriched rows of a product that carry a price
RowsPriced(md, prod, pr) ==
    Cardinality({i \in DOMAIN md : md[i].product = prod /\ md[i].price = pr})

\* C10: with a price list that holds a known price, every material row of a
\* product without entry in the list is enriched once, with the mean of the
\* known prices of the list (each entry counted once), and a material row of
\* a product with entries is enriched once per entry, with the price of the
\* entry when it is known.
C10_ImputedMean ==
    (Loaded /\ KnownPrices(material_price) # {}) =>
        \A prod \in {raw_material[i].product : i \in DOMAIN raw_material} :
            LET n    == Cardinality({i \in DOMAIN raw_material :
                                        raw_material[i].product = prod})
                hits == {j \in DOMAIN material_price : material_price[j].mcode = prod}
                rows == {i \in DOMAIN material_data : material_data[i].product = prod}
            IN  IF hits = {}
                THEN /\ Cardinality(rows) = n
                     /\ \A i \in rows : material_data[i].price = ListMean(material_price)
                ELSE /\ Cardinality(rows) = n * Cardinality(hits)
                     /\ \A j \in hits \cap KnownPrices(material_price) :
                            RowsPriced(material_data, prod, material_price[j].price) =
                                n * Cardinality(
                                    {k \in hits :
                                        fillna(material_price[k].price,
                                               ListMean(material_price)) =
                                            material_price[j].price})

\* a loaded table with an unlisted product priced at a mean that is no price
\* of the list, next to a listed product that kept its price
C10_Witness ==
    /\ Loaded
    /\ \E r \in Rows(material_data) :
           /\ r.mcode = NA
           /\ IsFinite(r.price)
           /\ \A e \in Rows(material_price) : e.price # r.price
    /\ \E r \in Rows(material_data) :
           r.mcode # NA /\ \E e \in Rows(material_price) : e.mcode = r.mcode /\ e.price = r.price

\* the cells of a row that were read from the dispatch file
RawCells(r) == <<r.code, r.name, r.region, r.province, r.product, r.ship, r.qty>>

\* the products the price list has an entry for
ListedProducts(mp) == {mp[j].mcode : j \in DOMAIN mp}

\* C11: with a price list that holds a known price, a material row whose
\* product code has no entry in the list is never dropped: it is a row of the enriched material table, its cost is
\* part of the total material cost of the aggregate row of its distributor
\* code and month, and it is a row of the filtered material view whenever its
\* region, its province and its month are selected and every material
\* category on offer is selected.
C11_UnlistedRowKept ==
    (Loaded /\ KnownPrices(material_price) # {}) =>
        \A i \in DOMAIN raw_material :
            raw_material[i].product \notin ListedProducts(material_price) =>
                /\ \E r \in Rows(material_data) :
                       /\ RawCells(r) = RawCells(raw_material[i])
                       /\ \E a \in Rows(distributor_data) :
                              /\ CodeMonth(a) = CodeMonth(r)
                              /\ a.total_cost =
                                     Total(material_data, "cost", CodeMonth(r),
                                           Len(material_data))
                       /\ ( /\ r.region \in selected.regions
                            /\ r.province \in selected.provinces
                            /\ r.month_name = selected.month
                            /\ selected.categories =
                                   material_categories(material_price) ) =>
                              \E f \in Rows(filtered_material) :
                                  RawCells(f) = RawCells(r)

C13_CostNonNegative ==
    ( /\ Loaded
      /\ \A r \in Rows(raw_material) : FGe(r.qty, Num(0))
      /\ \A e \in Rows(material_price) : FGe(e.price, Num(0)) ) =>
        /\ \A r \in Rows(material_data) : FGe(r.cost, Num(0))
        /\ \A a \in Rows(distributor_data) : FGe(a.total_cost, Num(0))

\* the products among the material rows of a distributor code and month
ProductsOf(md, key) == {r.product : r \in {x \in Rows(md) : CodeMonth(x) = key}}

\* C14: the material diversity of every aggregate row is the number of
\* distinct product codes among the material rows of the row's distributor
\* code and month, and 0 when there is no such material row.
C14_Diversity ==
    \A a \in Rows(distributor_data) :
        /\ a.diversity = Num(Cardinality(ProductsOf(material_data, CodeMonth(a))))
        /\ (\A r \in Rows(material_data) : CodeMonth(r) # CodeMonth(a)) =>
               a.diversity = Num(0)

\* a loaded aggregate with a row of diversity 2 over three material rows and
\* a row of a distributor without material rows, of diversity 0
C14_Witness ==
    /\ Loaded
    /\ Len(material_data) = 3
    /\ \E a \in Rows(distributor_data) : a.diversity = Num(2)
    /\ \E a \in Rows(distributor_data) :
           /\ a.diversity = Num(0)
           /\ a.total_sales # Num(0)

\* C15: an aggregate row of a distributor and month with sales rows and no
\* material row has total material cost 0, ROI 0, material-sales ratio 0 and
\* the label of low efficiency, whatever its total sales and whatever the
\* other rows of the aggregate.
C15_SalesWithoutCost ==
    \A a \in Rows(distributor_data) :
        ( /\ GroupKey(a) \in GroupKeys(sales_data)
          /\ GroupKey(a) \notin GroupKeys(material_data) ) =>
            /\ a.total_cost = Num(0)
            /\ a.roi = Num(0)
            /\ a.ratio = Num(0)
            /\ a.segment = "low_efficiency"

\* a loaded aggregate whose row of largest total sales, above the 75th
\* percentile, has no material row and is of low efficiency, next to a row
\* with ROI of 2 or more
C15_Witness ==
    /\ Loaded
    /\ \E a \in Rows(distributor_data) :
           /\ GroupKey(a) \in GroupKeys(sales_data)
           /\ GroupKey(a) \notin GroupKeys(material_data)
           /\ FGt(a.total_sales, quantile(TotalSales(distributor_data), 3, 4))
           /\ a.segment = "low_efficiency"
    /\ \E b \in Rows(distributor_data) : FGe(b.roi, Num(2))

\* the total sales of the aggregate rows of one month, in row order
MonthSales(dd, m) == TotalSales(SelectSeq(dd, LAMBDA r : r.month_name = m))

\* C16 as stated: an aggregate row with ROI 2.5 whose total sales is the
\* value at the 80th percentile of the total sales of the rows of its month
\* has the label of high value.
C16_Original ==
    \A a \in Rows(distributor_data) :
        ( /\ a.roi = Frac(5, 2)
          /\ a.total_sales = quantile(MonthSales(distributor_data, a.month_name), 4, 5) ) =>
            a.segment = "high_value"

\* C16: an aggregate row with ROI 2.5 has the label of high value exactly
\* when its total sales is greater than the 75th percentile of the total
\* sales of all rows of the aggregate, whatever their month.
C16_HighValue ==
    \A a \in Rows(distributor_data) :
        a.roi = Frac(5, 2) =>
            ( a.segment = "high_value" <=>
                  FGt(a.total_sales, quantile(TotalSales(distributor_data), 3, 4)) )

\* a loaded aggregate with a row of ROI 2.5 whose sales are the value at the
\* 80th percentile of its month and above the 75th percentile of all rows,
\* the rows of another month included, and which is of high value
C16_Witness ==
    /\ Loaded
    /\ \E a \in Rows(distributor_data) :
           /\ a.roi = Frac(5, 2)
           /\ a.total_sales = quantile(MonthSales(distributor_data, a.month_name), 4, 5)
           /\ FGt(a.total_sales, quantile(TotalSales(distributor_data), 3, 4))
           /\ a.segment = "high_value"
           /\ \E b \in Rows(distributor_data) : b.month_name # a.month_name

\* a distributor code has a sales row of the selected region, province and month
SellsInSelection(c) ==
    \E s \in Rows(sales_data) :
        /\ s.code = c
        /\ s.region \in selected.regions
        /\ s.province \in selected.provinces
        /\ s.month_name = selected.month

\* C17: under every selection the filtered distributor view is exactly the
\* aggregate rows, in their order, whose month is the selected month, whose
\* label is among the selected labels and whose distributor code has a sales
\* row of the selected regions, provinces and month; a distributor whose
\* sales rows are all outside the selected regions and provinces is not in it.
C17_DistributorView ==
    Loaded =>
        /\ filtered_distributor =
               SelectSeq(distributor_data,
                         LAMBDA a : /\ a.month_name = selected.month
                                    /\ a.segment \in selected.segments
                                    /\ SellsInSelection(a.code))
        /\ \A a \in Rows(filtered_distributor) : SellsInSelection(a.code)

\* a selection of a region under which the view leaves out an aggregate row
\* of the selected month and of a selected label, whose distributor has
\* sales in that month in a region that is not selected
C17_Witness ==
    /\ Loaded
    /\ selected.regions # {}
    /\ \E a \in Rows(distributor_data) :
           /\ a.month_name = selected.month
           /\ a.segment \in selected.segments
           /\ a \notin Rows(filtered_distributor)
           /\ \E s \in Rows(sales_data) :
                  /\ s.code = a.code
                  /\ s.month_name = selected.month
                  /\ s.region \notin selected.regions

\* C18: under every selection, every distributor of the filtered distributor
\* view has a row in the filtered sales view, its total sales in the
\* distributor view is the sum of amount over its rows of the filtered sales
\* view, and its total material cost the sum of cost over its rows of the
\* filtered material view.
C18_ViewsConsistent ==
    Loaded =>
        \A a \in Rows(filtered_distributor) :
            /\ \E s \in Rows(filtered_sales) : s.code = a.code
            /\ a.total_sales =
                   Total(filtered_sales, "amount", CodeMonth(a), Len(filtered_sales))
            /\ a.total_cost =
                   Total(filtered_material, "cost", CodeMonth(a), Len(filtered_material))

\* the columns the tabs assign on the filtered distributor view
TabColumns == {"diversity_group", "roi_group"}

\* C19: a run of main, the first one or one after a change of selection,
\* leaves the loaded tables as load_data returned them: a run after the
\* first changes none of the four tables, the frame main holds as
\* distributor_data at the end of the run is the loaded aggregate, and the
\* group columns of the tabs are columns of the filtered view alone.
C19_SourcesUntouched ==
    [][Loaded' =>
          /\ Loaded => UNCHANGED <<material_data, sales_data, material_price,
                                   distributor_data>>
          /\ main_distributor_data' = distributor_data'
          /\ \A r \in Rows(main_distributor_data') : DOMAIN r \cap TabColumns = {}
          /\ \A r \in Rows(tab_distributor') : TabColumns \subseteq DOMAIN r]_vars

\* after a change of selection, a view with a row that carries the two group
\* columns next to a loaded aggregate with more rows than the view
C19_Witness ==
    /\ Loaded
    /\ selected.segments # value_segments(distributor_data)
    /\ \E r \in Rows(tab_distributor) :
           r.diversity_group = "low_diversity" /\ r.roi_group # NA
    /\ Len(tab_distributor) < Len(distributor_data)

\* a step that is a run of main: the files are as they were
IsRun == UNCHANGED <<remote_ok, local_ok>>

\* C21: a call of load_data with the remote source selected that finds one of
\* the three remote files failing shows the warning and, when the three
\* local reads succeed, returns tables that all come from the local files
\* and lets the run go on; the tables of a call never mix the two sources.
C21_FallbackAllOrNothing ==
    [][(IsRun /\ call'.use_github /\ ~call'.hit /\ \E f \in FileSet : ~remote_ok[f]) =>
          /\ call'.warning
          /\ call'.requests = Len(Files)
          /\ (\A f \in FileSet : local_ok[f]) =>
                 /\ ~call'.raised
                 /\ \A f \in FileSet : call'.origin[f] = "local"
                 /\ pc' = "ready"
                 /\ distributor_data' = aggregate(material_data', sales_data')
                 /\ material_data' # <<>>
          /\ \A f, g \in FileSet : call'.origin[f] = call'.origin[g]]_vars

\* a run with the remote source where one remote file failed and two were
\* fetched: the warning was shown and the three tables are the local ones
C21_Witness ==
    /\ Loaded
    /\ call.use_github /\ ~call.hit
    /\ call.errors = 1
    /\ call.warning
    /\ call.reads = Len(Files)
    /\ \A f \in FileSet : call.origin[f] = "local"

\* the tables and views of the run, none of them assigned
NothingShown ==
    /\ material_data = <<>> /\ sales_data = <<>>
    /\ material_price = <<>> /\ distributor_data = <<>>
    /\ filtered_material = <<>> /\ filtered_sales = <<>>
    /\ filtered_distributor = <<>> /\ tab_distributor = <<>>
    /\ main_distributor_data = <<>>

\* C22: a call of load_data that reaches the local reads, with the local
\* source selected or after a remote failure, and finds one of the three
\* local files failing raises, returns no table and stores nothing in the
\* cache, and the run of main that made the call derives, filters and shows
\* nothing.
C22_LocalFailureFatal ==
    [][(IsRun /\ ~call'.hit) =>
          /\ ( /\ ~call'.use_github \/ \E f \in FileSet : ~remote_ok[f]
               /\ \E f \in FileSet : ~local_ok[f] ) =>
                 /\ call'.raised
                 /\ call'.origin = NoOrigin
                 /\ cache' = cache
          /\ call'.raised => (pc' = "failed" /\ NothingShown')]_vars

\* a failed run after a successful one: the remote source failed, then a
\* local read, and the views of the earlier run are gone
C22_Witness ==
    /\ pc = "failed"
    /\ call.raised /\ call.use_github /\ call.warning
    /\ call.reads < Len(Files)
    /\ cache[FALSE] # NoCall
    /\ NothingShown

\* C23: once a call of load_data has returned for an argument (the call
\* before this one did, or a result is stored for the argument), every later
\* run that calls it with that argument gets the tables of that call, makes
\* no request and reads no file, whatever has become of the files, and the
\* stored result of an argument is never replaced.
C23_CachedPerSelector ==
    [][/\ ( /\ IsRun
            /\ \/ cache[call'.use_github] # NoCall
               \/ /\ call # NoCall /\ ~call.raised
                  /\ call.use_github = call'.use_github ) =>
              /\ call'.hit
              /\ call'.requests = 0 /\ call'.reads = 0
              /\ ~call'.raised
              /\ cache[call'.use_github] # NoCall
              /\ call'.origin = cache[call'.use_github].origin
              /\ pc' = "ready"
       /\ \A g \in BOOLEAN : cache[g] # NoCall => cache'[g] = cache[g]]_vars

\* a run answered from the cache for the local source while a local file
\* has gone missing, with a result stored for the remote source as well
C23_Witness ==
    /\ Loaded
    /\ call.hit /\ ~call.use_github
    /\ \E f \in FileSet : ~local_ok[f]
    /\ cache[TRUE] # NoCall
    /\ cache[TRUE].origin # cache[FALSE].origin

\* the numeric cells of a row of the monthly change table
MonthlyCells(r) ==
    {r.cost, r.amount, r.roi, r.cost_change, r.amount_change, r.roi_change}

\* C24: under every selection, every numeric cell of the monthly change
\* table that is shown and every numeric cell of the segment summary table
\* is a finite number.
C24_TablesFinite ==
    Loaded =>
        /\ \A r \in Rows(monthly_change_table(material_data, sales_data, selected)) :
               \A x \in MonthlyCells(r) : IsFinite(x)
        /\ LET ss == segment_summary(filtered_distributor)
           IN  \A l \in DOMAIN ss :
                   \A x \in {ss[l].total_cost, ss[l].total_sales, ss[l].mean_roi,
                             ss[l].cost_share, ss[l].sales_share} : IsFinite(x)

\* C25: in a run on loaded tables with rows that leaves the filtered
\* distributor view, the filtered material view or the filtered sales view
\* without rows, no tab raises.
C25_EmptyViewsRender ==
    ( /\ Loaded
      /\ material_data # <<>> /\ sales_data # <<>>
      /\ \/ filtered_distributor = <<>>
         \/ filtered_material = <<>>
         \/ filtered_sales = <<>> ) =>
        render_errors(material_data, sales_data, filtered_distributor, selected) = {}

\* the seasonal monthly table of the selection
SeasonTable == monthly_analysis(material_data, sales_data, selected)

\* C26: a correlation for lag k (k = 1, 2, 3) exists only when the seasonal
\* monthly table has more than k rows, and when there is none the view is
\* the message, not the lag chart.
C26_LagGuard ==
    Loaded =>
        /\ \A k \in 1..3 : k \in DOMAIN lag_corr(SeasonTable) => Len(SeasonTable) > k
        /\ Len(SeasonTable) <= 1 => lag_view(SeasonTable) = "warning"
        /\ Len(SeasonTable) > 1 => lag_view(SeasonTable) = "lag_chart"

\* a table of one month, shown with the message, no lag computed
C26_Witness ==
    /\ Loaded
    /\ Len(SeasonTable) = 1
    /\ DOMAIN lag_corr(SeasonTable) = {}
    /\ lag_view(SeasonTable) = "warning"

\* C27: the price join never changes the number of material rows: the
\* enriched material table has one row per row read from the dispatch file,
\* in the same order and with the same cells read, under every price list
\* of known prices, one that lists a material code twice included.
C27_JoinKeepsRows ==
    (Loaded /\ KnownPrices(material_price) = DOMAIN material_price) =>
        /\ Len(material_data) = Len(raw_material)
        /\ \A i \in DOMAIN raw_material :
               RawCells(material_data[i]) = RawCells(raw_material[i])

\* month label a is earlier than month label b
Earlier(a, b) == a[1] < b[1] \/ (a[1] = b[1] /\ a[2] < b[2])

\* the rows of a month-over-month table are in chronological order of their
\* month label, so that the row above is the preceding month of the table
Chronological(t) ==
    \A i \in DOMAIN t : i > 1 => Earlier(t[i - 1].month_name, t[i].month_name)

\* C28: the rows of the monthly change table and of the seasonal monthly
\* table are ordered chronologically by month label, so that each change in
\* percent is against the chronologically preceding month, also when the
\* data spans more than one calendar year.
C28_ChronologicalOrder ==
    Loaded =>
        /\ Chronological(monthly_data(material_data, sales_data, selected))
        /\ Chronological(SeasonTable)

\* the group whose label names the diversity d >= 1: 1-3, 4-6, 7-10, >10
NamedDiversityGroup(d) ==
    IF FGe(Num(3), d) THEN "low_diversity"
    ELSE IF FGe(Num(6), d) THEN "medium_diversity"
    ELSE IF FGe(Num(10), d) THEN "high_diversity"
    ELSE "very_high_diversity"

\* C29: a row of the filtered distributor view with material diversity
\* d >= 1 is counted in the diversity group whose label names d: 1 to 3 in
\* low, 4 to 6 in medium, 7 to 10 in high, more than 10 in very high.
C29_DiversityGroups ==
    Loaded =>
        /\ \A r \in Rows(tab_distributor) :
               FGe(r.diversity, Num(1)) =>
                   r.diversity_group = NamedDiversityGroup(r.diversity)
        /\ \A l \in Range(diversity_labels) :
               diversity_group_analysis(tab_distributor)[l] >=
                   Cardinality({i \in DOMAIN tab_distributor :
                       /\ FGe(tab_distributor[i].diversity, Num(1))
                       /\ NamedDiversityGroup(tab_distributor[i].diversity) = l})

\* the group whose label matches the ROI x: <1, 1 to <2, 2 to <3, >=3
NamedRoiGroup(x) ==
    IF FGt(Num(1), x) THEN "roi_low"
    ELSE IF FGt(Num(2), x) THEN "roi_fair"
    ELSE IF FGt(Num(3), x) THEN "roi_good"
    ELSE "roi_excellent"

\* the sum of the counts of the ROI groups
RoiGroupTotal(td) ==
    LET c == roi_group_analysis(td)
    IN  c["roi_low"] + c["roi_fair"] + c["roi_good"] + c["roi_excellent"]

\* C30: every row of the filtered distributor view is in the ROI group
\* whose label matches its ROI, and the counts of the four groups sum to the
\* number of rows of the view.
C30_RoiGroups ==
    Loaded =>
        /\ \A r \in Rows(tab_distributor) : r.roi_group = NamedRoiGroup(r.roi)
        /\ RoiGroupTotal(tab_distributor) = Len(tab_distributor)
====
